---- MODULE Spec2Model ----
(***************************************************************************)
(* Hardware watchdog feeder daemon (dog.py): class WDT (device handle,     *)
(* SIGTERM handler, supervisor loop) and the reference health predicate    *)
(* check_system_alive, together with the kernel watchdog device it feeds.  *)
(*                                                                         *)
(* The main thread runs WDT.__init__, WDT.run and the health predicate     *)
(* statement by statement (pc).  A SIGTERM is handled between two          *)
(* statements of the main thread by pushing a frame of WDT._stop on        *)
(* hstack; an exception raised in a handler frame unwinds every handler    *)
(* frame and continues in the main thread at pc.                           *)
(***************************************************************************)
EXTENDS Integers, Sequences, FiniteSets, TLC

VARIABLES
    pc,           \* statement the main thread executes next
    site,         \* call site of the current feed()/sleep(): "grace" | "then" | "else"
    proc,         \* "running" | "exited" (sys.exit(0)) | "raised" (uncaught exception, status 1) | "reset" (host reset)
    hstack,       \* frames of _stop in progress, innermost last: "write" | "close" | "exit"
    handler,      \* TRUE once signal.signal(SIGTERM, self._stop) has run
    sigs,         \* SIGTERMs delivered so far
    fd,           \* self.fd: "none" | "open" | "closed"
    buf,          \* characters written to self.fd and not yet flushed
    health_check, \* run() argument: "None" | "check_system_alive" | "predicate"
    interval,     \* self.interval
    startup_delay,
    fail_timeout,
    end_time,     \* run(): end_time
    fail_start,   \* run(): fail_start, << >> for None, <<t>> for a timestamp
    elapsed,      \* run(): elapsed (0 until line 43 first assigns it; not read before)
    start,        \* check_system_alive(): start
    now,          \* real (monotonic) time
    wallOff,      \* time.time() - now
    wdt,          \* kernel watchdog device
    obs           \* observation of the run (history): what the claims speak about

vars == <<pc, site, proc, hstack, handler, sigs, fd, buf, health_check, interval,
          startup_delay, fail_timeout, end_time, fail_start, elapsed, start, now,
          wallOff, wdt, obs>>

params == <<health_check, interval, startup_delay, fail_timeout>>

----------------------------------------------------------------------------
(* Bounds of the model *)

\* no sleep or latency starts after this time
MaxTime == 40

\* at most this many SIGTERMs are delivered
MaxSignals == 2

\* at most this many step adjustments of the wall clock
MaxClockSteps == 1

\* time.time() when the model starts
WallEpoch == 50

\* size of one step adjustment of the wall clock
ClockJump == 4

(* Inputs *)
Intervals == {4, 5}
StartupDelays == {0, 6}
FailTimeouts == {0, 10}
HealthChecks == {"None", "check_system_alive", "predicate"}
\* MemAvailable values read from /proc/meminfo (0 when the line is missing)
MemValues == {0, 49999, 50000}
\* seconds the scratch-file write takes
Latencies == {0, 6}

(* Program constants *)
MemFloor == 50000
IoLimit == 5

\* the environment turns unhealthy for good no later than this time, early
\* enough for the reset to fall before MaxTime
SickBy == 6

\* the kernel watchdog's own timeout (driver configuration, not set by dog.py)
KernelTimeout == 12

None == << >>

----------------------------------------------------------------------------
(* Pure pieces of the code *)

\* time.time()
Wall == now + wallOff

\* (mutant) the delay is not added to the current time
EndTimeNoClock(t, delay) == delay

\* line 28: end_time = time.time() + startup_delay
EndTime(t, delay) == t + delay

\* line 29: while time.time() < end_time
InGrace(t, e) == t < e

\* (mutant) the predicate is named but not called: the condition is always true
HealthyNoCall(hc, result) == TRUE

\* (mutant) a None predicate is not special-cased
HealthyResultOnly(hc, result) == result

\* line 37: health_check is None or health_check()
Healthy(hc, result) == hc = "None" \/ result

\* (mutant) the window start is stamped on every unhealthy tick
FailStartEveryTick(fs, t) == <<t>>

\* lines 41-42: if fail_start is None: fail_start = time.time()
FailStart(fs, t) == IF fs = None THEN <<t>> ELSE fs

\* line 43: elapsed = time.time() - fail_start
Elapsed(t, fs) == t - fs[1]

\* (mutant) the boundary tick still feeds
WithinTimeoutLe(e, ft) == e <= ft

\* (mutant) feeds stop two seconds early
WithinTimeoutEarly(e, ft) == e < ft - 2

\* line 45: if elapsed < fail_timeout
WithinTimeout(e, ft) == e < ft

\* (mutant) the countdown is printed only while feeds continue
LogWithinTimeout(e, ft) == IF e < ft THEN << <<e, ft>> >> ELSE << >>

\* line 44: print(f"... {int(elapsed)}/{fail_timeout} ..."), once on every pass
\* through the else-branch; the lines printed, each as <<seconds, fail_timeout>>
\* (times are whole seconds here, so int(elapsed) is elapsed)
LogCountdown(e, ft) == << <<e, ft>> >>

\* (mutant) the loop is left once feeds are withheld
AfterWithheldReturn == "return"

\* lines 45-48: the if has no else and the loop no break: a tick that
\* withholds its feed goes on to time.sleep (line 48)
AfterWithheld == "sleep"

\* (mutant) a healthy tick leaves the window start as it is
KeepFailStart(fs) == fs

\* line 39: fail_start = None
ClearFailStart(fs) == None

\* line 55: if avail < 50000
MemLow(avail) == avail < MemFloor

\* line 63: if time.time() - start > 5
IoStuck(t, s) == t - s > IoLimit

\* (mutant) the handle is closed without the magic byte
StopBufferNoMagic(b) == b

\* line 18: self.fd.write("V")
StopBuffer(b) == Append(b, "V")

\* statements of check_system_alive inside try: ... except: (lines 59-68)
InTry == {"hc_write", "hc_lat"}

----------------------------------------------------------------------------
(* The kernel watchdog device: a countdown restarted by every write; a     *)
(* write holding the magic character 'V' lets the following close disarm.  *)

\* one write(2) of the characters cs at time t
DevWrite(w, cs, t) ==
    IF cs = << >> THEN w
    ELSE [w EXCEPT !.last = t,
                   !.expect = \E i \in 1..Len(cs) : cs[i] = "V",
                   !.lastByte = cs[Len(cs)]]

\* close(2) of the device
DevClose(w) == [w EXCEPT !.armed = w.armed /\ ~w.expect, !.open = FALSE]

\* the time at which the countdown reaches zero
Deadline == wdt.last + KernelTimeout

----------------------------------------------------------------------------
(* Structure of the code: which errors the loop lets through *)

\* (mutant) the loop swallows an error of feed() and goes on
FeedErrorSwallowed == FALSE

\* run() calls self.feed() outside any try: an error of feed() leaves run()
FeedErrorPropagates == TRUE

\* run() calls health_check() outside any try: an error of it leaves run()
HealthErrorPropagates == TRUE

----------------------------------------------------------------------------
(* Observation of the run *)

NoTick == [kind |-> "none", fed |-> FALSE, t |-> 0, T |-> 0, result |-> FALSE, calls |-> 0]

ObsInit ==
    [ runStart   |-> None,    \* real time of the entry of run()
      firstCall  |-> None,    \* real time of the first call of the health predicate
      tick       |-> NoTick,  \* the latest Monitoring tick: branch taken, feed() called, real time, start of its
                              \* streak, value of health_check(), calls of health_check made for it
      calls      |-> 0,       \* calls of health_check made for the tick in progress
      log        |-> << >>,   \* countdown lines printed by the latest Monitoring tick
      lines      |-> << >>,   \* countdown lines printed by the tick in progress
      recovered  |-> FALSE,   \* a healthy tick followed a streak in which feeds were withheld
      streak     |-> None,    \* real time of the first tick of the unhealthy streak in progress
      streakNo   |-> 0,       \* unhealthy streaks begun (counted up to 2)
      expired    |-> FALSE,   \* some unhealthy tick came fail_timeout or more after its streak began
      allFed     |-> TRUE,    \* every Monitoring tick so far called feed()
      everFed    |-> FALSE,   \* feed() was called
      vWrites    |-> 0,       \* executions of self.fd.write("V")
      closes     |-> 0,       \* executions of self.fd.close()
      closeFailed |-> FALSE,  \* self.fd.close() raised: the device rejected its write
      feedOnClosed |-> FALSE, \* feed() was called after disarm closed the handle
      stopOnClosed |-> FALSE, \* _stop ran again after disarm closed the handle
      feedFailed |-> FALSE,   \* a write or flush of feed() failed
      cause      |-> "",      \* what raised the exception that ended the process
      prev       |-> None,    \* span of the unhealthy streak that the latest healthy tick ended
      dry        |-> FALSE,   \* a tick of the streak in progress did not feed
      lateWrite  |-> FALSE,   \* the device was written after a tick of the streak in progress did not feed
      sick       |-> FALSE,   \* the environment has turned unhealthy for good
      clockSteps |-> 0 ]      \* step adjustments of the wall clock so far

\* the default phase of the supervisor loop
Starting == pc = "grace_test" \/ (pc \in {"feed_write", "feed_flush", "sleep"} /\ site = "grace")
Monitoring == pc \in {"mon_test", "hc_mem", "hc_write", "hc_lat", "hc_ret", "mon_clear",
                        "mon_else", "mon_elapsed", "mon_print", "mon_within"}
                  \/ (pc \in {"feed_write", "feed_flush", "sleep"} /\ site # "grace")

----------------------------------------------------------------------------
Init ==
    /\ pc = "start"
    /\ site = "grace"
    /\ proc = "running"
    /\ hstack = << >>
    /\ handler = FALSE
    /\ sigs = 0
    /\ fd = "none"
    /\ buf = << >>
    /\ health_check \in HealthChecks
    /\ interval \in Intervals
    /\ startup_delay \in StartupDelays
    /\ fail_timeout \in FailTimeouts
    /\ end_time = 0
    /\ fail_start = None
    /\ elapsed = 0
    /\ start = 0
    /\ now = 0
    /\ wallOff = WallEpoch
    /\ wdt = [armed |-> FALSE, open |-> FALSE, last |-> 0, expect |-> FALSE, lastByte |-> ""]
    /\ obs = ObsInit

\* the main thread runs: the process lives and no handler frame is on top
Main == proc = "running" /\ hstack = << >>

\* (mutant) the process disarms the device when an exception ends it
CrashDisarming(chunk) ==
    /\ proc' = "raised"
    /\ IF fd = "open"
         THEN fd' = "closed" /\ wdt' = DevClose(DevWrite(wdt, Append(chunk, "V"), now))
         ELSE fd' = fd /\ wdt' = wdt
    /\ buf' = << >>
    /\ UNCHANGED <<pc, site, hstack, handler, sigs, params, elapsed, end_time, fail_start,
                   start, now, wallOff>>

\* an uncaught exception in the main thread ends the process (status 1); the
\* interpreter closes the file, writing out `chunk`, without the magic close
Crash(chunk) ==
    /\ proc' = "raised"
    /\ IF fd = "open"
         THEN fd' = "closed" /\ wdt' = DevClose(DevWrite(wdt, chunk, now))
         ELSE fd' = fd /\ wdt' = wdt
    /\ buf' = << >>
    /\ UNCHANGED <<pc, site, hstack, handler, sigs, params, elapsed, end_time, fail_start,
                   start, now, wallOff>>

\* time passes by d; the host is reset when the countdown reaches zero first
Pass(d) ==
    IF wdt.armed /\ now + d >= Deadline
      THEN now' = Deadline /\ proc' = "reset"
      ELSE now' = now + d /\ proc' = proc

(* WDT.__init__ *)

\* line 10: self.fd = open(device, "w"); opening the device starts the countdown
Open ==
    /\ Main /\ pc = "start"
    /\ fd' = "open"
    /\ wdt' = [wdt EXCEPT !.armed = TRUE, !.open = TRUE, !.last = now]
    /\ pc' = "install"
    /\ UNCHANGED <<site, proc, hstack, handler, sigs, buf, params, elapsed, end_time,
                   fail_start, start, now, wallOff, obs>>

\* line 10 raises: the constructor fails, no WDT exists
OpenFail ==
    /\ Main /\ pc = "start"
    /\ obs' = [obs EXCEPT !.cause = "open"]
    /\ Crash(<< >>)

\* line 11: signal.signal(signal.SIGTERM, self._stop)
InstallHandler ==
    /\ Main /\ pc = "install"
    /\ handler' = TRUE
    /\ pc' = "run"
    /\ UNCHANGED <<site, proc, hstack, sigs, fd, buf, params, elapsed, end_time,
                   fail_start, start, now, wallOff, wdt, obs>>

(* WDT.run: the grace period *)

\* lines 27-28: end_time = time.time() + startup_delay
RunEnter ==
    /\ Main /\ pc = "run"
    /\ end_time' = EndTime(Wall, startup_delay)
    /\ obs' = [obs EXCEPT !.runStart = <<now>>]
    /\ pc' = "grace_test"
    /\ UNCHANGED <<site, proc, hstack, handler, sigs, fd, buf, params, elapsed,
                   fail_start, start, now, wallOff, wdt>>

\* line 29 true: the loop body, self.feed() at line 30
GraceTick ==
    /\ Main /\ pc = "grace_test"
    /\ InGrace(Wall, end_time)
    /\ pc' = "feed_write" /\ site' = "grace"
    /\ obs' = [obs EXCEPT !.everFed = TRUE]
    /\ UNCHANGED <<proc, hstack, handler, sigs, fd, buf, params, elapsed, end_time,
                   fail_start, start, now, wallOff, wdt>>

\* line 29 false, lines 33-34: fail_start = None
GraceEnd ==
    /\ Main /\ pc = "grace_test"
    /\ ~InGrace(Wall, end_time)
    /\ fail_start' = None
    /\ pc' = "mon_test"
    /\ UNCHANGED <<site, proc, hstack, handler, sigs, fd, buf, params, elapsed, end_time,
                   start, now, wallOff, wdt, obs>>

(* WDT.feed *)

\* line 14: self.fd.write("1"); ValueError on a closed file
FeedWrite ==
    /\ Main /\ pc = "feed_write"
    /\ IF fd = "closed"
         THEN /\ obs' = [obs EXCEPT !.feedOnClosed = TRUE, !.feedFailed = TRUE,
                                    !.cause = "closed"]
              /\ Crash(<< >>)
         ELSE /\ buf' = Append(buf, "1")
              /\ pc' = "feed_flush"
              /\ UNCHANGED <<site, proc, hstack, handler, sigs, fd, params, elapsed, end_time,
                             fail_start, start, now, wallOff, wdt, obs>>

\* line 15: self.fd.flush(); feed() returns to line 31, 39 or 48
FeedFlush ==
    /\ Main /\ pc = "feed_flush"
    /\ wdt' = DevWrite(wdt, buf, now)
    /\ buf' = << >>
    /\ obs' = [obs EXCEPT !.lateWrite = @ \/ obs.dry]
    /\ pc' = IF site = "then" THEN "mon_clear" ELSE "sleep"
    /\ UNCHANGED <<site, proc, hstack, handler, sigs, fd, params, elapsed, end_time,
                   fail_start, start, now, wallOff>>

\* line 15 raises (the device rejects the write): the characters stay in the
\* buffer of the file object, and the interpreter writes them once more when it
\* closes the file at exit; the device rejects that write too, or accepts it
FeedFlushFail ==
    /\ Main /\ pc = "feed_flush"
    /\ IF FeedErrorPropagates
         THEN /\ obs' = [obs EXCEPT !.feedFailed = TRUE, !.cause = "feed"]
              /\ \E late \in {<< >>, buf} : Crash(late)
         ELSE /\ obs' = [obs EXCEPT !.feedFailed = TRUE]
              /\ buf' = << >>
              /\ pc' = "sleep"
              /\ UNCHANGED <<site, proc, hstack, handler, sigs, fd, params, elapsed, end_time,
                             fail_start, start, now, wallOff, wdt>>

\* lines 31 and 48: time.sleep(self.interval)
Sleep ==
    /\ Main /\ pc = "sleep"
    /\ now + interval <= MaxTime
    /\ Pass(interval)
    /\ pc' = IF site = "grace" THEN "grace_test" ELSE "mon_test"
    /\ UNCHANGED <<site, hstack, handler, sigs, fd, buf, params, elapsed, end_time,
                   fail_start, start, wallOff, wdt, obs>>

(* WDT.run: the monitoring loop *)

\* the step at hand calls a predicate that returns within the step
Called == IF pc = "mon_test" /\ health_check = "predicate" THEN 1 ELSE 0

\* line 37 has its value: the then-branch calls self.feed() (line 38), the
\* else-branch is entered at line 41
Branch(result) ==
    IF Healthy(health_check, result)
      THEN /\ pc' = "feed_write" /\ site' = "then"
           /\ obs' = [obs EXCEPT !.tick = [kind |-> "healthy", fed |-> TRUE, t |-> now, T |-> now,
                                           result |-> result, calls |-> obs.calls + Called],
                                 !.calls = 0,
                                 !.log = obs.lines,
                                 !.lines = << >>,
                                 !.recovered = @ \/ obs.dry,
                                 !.streak = None,
                                 !.prev = IF obs.streak = None THEN @
                                          ELSE <<obs.tick.t - obs.tick.T>>,
                                 !.dry = FALSE,
                                 !.everFed = TRUE,
                                 !.firstCall = IF health_check # "None" /\ @ = None THEN <<now>> ELSE @]
      ELSE /\ pc' = "mon_else" /\ site' = site
           /\ obs' = [obs EXCEPT !.firstCall = IF @ = None THEN <<now>> ELSE @,
                                 !.calls = @ + Called]

\* line 37 with health_check None: the predicate is not called
MonTestNone ==
    /\ Main /\ pc = "mon_test"
    /\ health_check = "None"
    /\ Branch(FALSE)
    /\ UNCHANGED <<proc, hstack, handler, sigs, fd, buf, params, elapsed, end_time,
                   fail_start, start, now, wallOff, wdt>>

\* line 37 with a predicate of the caller: it returns True or False
MonTestPredicate ==
    /\ Main /\ pc = "mon_test"
    /\ health_check = "predicate"
    /\ \E result \in BOOLEAN : (obs.sick => ~result) /\ Branch(result)
    /\ UNCHANGED <<proc, hstack, handler, sigs, fd, buf, params, elapsed, end_time,
                   fail_start, start, now, wallOff, wdt>>

\* line 37 with a predicate of the caller: it raises
MonTestRaise ==
    /\ Main /\ pc = "mon_test"
    /\ health_check = "predicate"
    /\ IF HealthErrorPropagates
         THEN /\ obs' = [obs EXCEPT !.cause = "health",
                                    !.calls = @ + 1,
                                    !.firstCall = IF @ = None THEN <<now>> ELSE @]
              /\ Crash(buf)
         ELSE /\ Branch(FALSE)
              /\ UNCHANGED <<proc, hstack, handler, sigs, fd, buf, params, elapsed, end_time,
                             fail_start, start, now, wallOff, wdt>>

\* line 37 calls check_system_alive
MonTestCall ==
    /\ Main /\ pc = "mon_test"
    /\ health_check = "check_system_alive"
    /\ pc' = "hc_mem"
    /\ obs' = [obs EXCEPT !.firstCall = IF @ = None THEN <<now>> ELSE @,
                          !.calls = @ + 1]
    /\ UNCHANGED <<site, proc, hstack, handler, sigs, fd, buf, params, elapsed, end_time,
                   fail_start, start, now, wallOff, wdt>>

\* line 39: fail_start = None, after the feed() of line 38 has returned
MonClear ==
    /\ Main /\ pc = "mon_clear"
    /\ fail_start' = ClearFailStart(fail_start)
    /\ pc' = "sleep"
    /\ UNCHANGED <<site, proc, hstack, handler, sigs, fd, buf, params, elapsed,
                   end_time, start, now, wallOff, wdt, obs>>

\* lines 41-42: if fail_start is None: fail_start = time.time()
MonElse ==
    /\ Main /\ pc = "mon_else"
    /\ fail_start' = FailStart(fail_start, Wall)
    /\ pc' = "mon_elapsed"
    /\ UNCHANGED <<site, proc, hstack, handler, sigs, fd, buf, params, elapsed,
                   end_time, start, now, wallOff, wdt, obs>>

\* line 43: elapsed = time.time() - fail_start
MonElapsed ==
    /\ Main /\ pc = "mon_elapsed"
    /\ elapsed' = Elapsed(Wall, fail_start)
    /\ pc' = "mon_print"
    /\ UNCHANGED <<site, proc, hstack, handler, sigs, fd, buf, params, end_time,
                   fail_start, start, now, wallOff, wdt, obs>>

\* line 44: print the countdown
MonPrint ==
    /\ Main /\ pc = "mon_print"
    /\ obs' = [obs EXCEPT !.lines = @ \o LogCountdown(elapsed, fail_timeout)]
    /\ pc' = "mon_within"
    /\ UNCHANGED <<site, proc, hstack, handler, sigs, fd, buf, params, elapsed,
                   end_time, fail_start, start, now, wallOff, wdt>>

\* lines 45-46: if elapsed < fail_timeout: self.feed(); else on to line 48
MonWithin ==
    /\ Main /\ pc = "mon_within"
    /\ LET feed == WithinTimeout(elapsed, fail_timeout)
           T == IF obs.streak = None THEN now ELSE obs.streak[1]
       IN  /\ pc' = IF feed THEN "feed_write" ELSE AfterWithheld
           /\ proc' = IF ~feed /\ AfterWithheld # "sleep" THEN "exited" ELSE proc
           /\ site' = "else"
           /\ obs' = [obs EXCEPT !.tick = [kind |-> "unhealthy", fed |-> feed, t |-> now, T |-> T,
                                           result |-> FALSE, calls |-> obs.calls],
                                 !.calls = 0,
                                 !.log = obs.lines,
                                 !.lines = << >>,
                                 !.streak = <<T>>,
                                 !.streakNo = IF obs.streak = None /\ @ < 2 THEN @ + 1 ELSE @,
                                 !.expired = @ \/ now - T >= fail_timeout,
                                 !.allFed = @ /\ feed,
                                 !.dry = @ \/ ~feed,
                                 !.everFed = @ \/ feed]
    /\ UNCHANGED <<hstack, handler, sigs, fd, buf, params, elapsed, end_time,
                   fail_start, start, now, wallOff, wdt>>

(* check_system_alive *)

\* lines 52-53 raise: /proc/meminfo cannot be opened or parsed (outside the try)
HcMemRaise ==
    /\ Main /\ pc = "hc_mem"
    /\ IF HealthErrorPropagates
         THEN /\ obs' = [obs EXCEPT !.cause = "health"]
              /\ Crash(buf)
         ELSE /\ Branch(FALSE)
              /\ UNCHANGED <<proc, hstack, handler, sigs, fd, buf, params, elapsed, end_time,
                             fail_start, start, now, wallOff, wdt>>

\* lines 52-60: avail is read; low memory returns False, else start = time.time()
HcMem ==
    /\ Main /\ pc = "hc_mem"
    /\ \E avail \in MemValues :
         IF MemLow(avail)
           THEN Branch(FALSE) /\ start' = start
           ELSE pc' = "hc_write" /\ start' = Wall /\ UNCHANGED <<site, obs>>
    /\ UNCHANGED <<proc, hstack, handler, sigs, fd, buf, params, elapsed, end_time,
                   fail_start, now, wallOff, wdt>>

\* lines 61-62: the scratch file is written, taking d seconds
HcWrite ==
    /\ Main /\ pc = "hc_write"
    /\ \E d \in Latencies :
         /\ now + d <= MaxTime
         /\ obs.sick => IoStuck(Wall + d, start)
         /\ Pass(d)
    /\ pc' = "hc_lat"
    /\ UNCHANGED <<site, hstack, handler, sigs, fd, buf, params, elapsed, end_time,
                   fail_start, start, wallOff, wdt, obs>>

\* lines 61-62 raise, lines 66-68: except: return False
HcWriteFail ==
    /\ Main /\ pc = "hc_write"
    /\ Branch(FALSE)
    /\ UNCHANGED <<proc, hstack, handler, sigs, fd, buf, params, elapsed, end_time,
                   fail_start, start, now, wallOff, wdt>>

\* lines 63-65: the write took more than 5 seconds: return False
HcLat ==
    /\ Main /\ pc = "hc_lat"
    /\ IF IoStuck(Wall, start)
         THEN Branch(FALSE)
         ELSE pc' = "hc_ret" /\ UNCHANGED <<site, obs>>
    /\ UNCHANGED <<proc, hstack, handler, sigs, fd, buf, params, elapsed, end_time,
                   fail_start, start, now, wallOff, wdt>>

\* line 70: return True
HcReturn ==
    /\ Main /\ pc = "hc_ret"
    /\ Branch(TRUE)
    /\ UNCHANGED <<proc, hstack, handler, sigs, fd, buf, params, elapsed, end_time,
                   fail_start, start, now, wallOff, wdt>>

(* SIGTERM and WDT._stop *)

Top == hstack[Len(hstack)]
SetTop(v) == [hstack EXCEPT ![Len(hstack)] = v]

\* a SIGTERM arrives: the interpreter calls self._stop before the next statement
Signal ==
    /\ proc = "running" /\ handler
    /\ sigs < MaxSignals
    /\ sigs' = sigs + 1
    /\ hstack' = Append(hstack, "write")
    /\ UNCHANGED <<pc, site, proc, handler, fd, buf, params, elapsed, end_time, fail_start,
                   start, now, wallOff, wdt, obs>>

\* an exception leaves the handler: it unwinds the handler frames and is raised
\* in the main thread at pc; the bare except of lines 66-68 catches it there and
\* check_system_alive returns False, anywhere else it ends the process
Unwind(exc) ==
    /\ hstack' = << >>
    /\ IF pc \in InTry
         THEN pc' = "mon_else" /\ proc' = proc
         ELSE pc' = pc /\ proc' = IF exc = "SystemExit" THEN "exited" ELSE "raised"

\* line 18: self.fd.write("V"); ValueError on a closed file
StopWrite ==
    /\ proc = "running" /\ hstack # << >> /\ Top = "write"
    /\ IF fd = "closed"
         THEN /\ obs' = [obs EXCEPT !.stopOnClosed = TRUE,
                                    !.cause = IF pc \in InTry THEN @ ELSE "closed"]
              /\ Unwind("ValueError")
              /\ buf' = buf
         ELSE /\ buf' = StopBuffer(buf)
              /\ obs' = [obs EXCEPT !.vWrites = @ + 1]
              /\ hstack' = SetTop("close")
              /\ UNCHANGED <<pc, proc>>
    /\ UNCHANGED <<site, handler, sigs, fd, params, elapsed, end_time, fail_start,
                   start, now, wallOff, wdt>>

\* line 19: self.fd.close() writes out the buffer and closes the device
StopClose ==
    /\ proc = "running" /\ hstack # << >> /\ Top = "close"
    /\ wdt' = DevClose(DevWrite(wdt, buf, now))
    /\ buf' = << >>
    /\ fd' = "closed"
    /\ obs' = [obs EXCEPT !.closes = @ + 1, !.lateWrite = @ \/ obs.dry]
    /\ hstack' = SetTop("exit")
    /\ UNCHANGED <<pc, site, proc, handler, sigs, params, elapsed, end_time, fail_start,
                   start, now, wallOff>>

\* line 19 raises (the device rejects the write that close() makes): the
\* buffer is dropped and the handle is closed all the same, without the magic
\* close; sys.exit(0) is not reached
StopCloseFail ==
    /\ proc = "running" /\ hstack # << >> /\ Top = "close"
    /\ wdt' = DevClose(wdt)
    /\ buf' = << >>
    /\ fd' = "closed"
    /\ obs' = [obs EXCEPT !.closes = @ + 1, !.closeFailed = TRUE,
                          !.cause = IF pc \in InTry THEN @ ELSE "close"]
    /\ Unwind("OSError")
    /\ UNCHANGED <<site, handler, sigs, params, elapsed, end_time, fail_start,
                   start, now, wallOff>>

\* line 20: sys.exit(0) raises SystemExit
StopExit ==
    /\ proc = "running" /\ hstack # << >> /\ Top = "exit"
    /\ Unwind("SystemExit")
    /\ UNCHANGED <<site, handler, sigs, fd, buf, params, elapsed, end_time, fail_start,
                   start, now, wallOff, wdt, obs>>

(* The environment *)

\* the process is gone and the countdown still runs: the host is reset
HostReset ==
    /\ proc = "raised" /\ wdt.armed
    /\ proc' = "reset"
    /\ now' = IF Deadline > now THEN Deadline ELSE now
    /\ UNCHANGED <<pc, site, hstack, handler, sigs, fd, buf, params, elapsed, end_time,
                   fail_start, start, wallOff, wdt, obs>>

\* from now on every health check fails (the predicate returns False or raises)
FallSick ==
    /\ proc = "running" /\ handler /\ health_check # "None"
    /\ ~obs.sick
    /\ now <= SickBy
    /\ pc \in {"grace_test", "mon_test"}
    /\ obs' = [obs EXCEPT !.sick = TRUE]
    /\ UNCHANGED <<pc, site, proc, hstack, handler, sigs, fd, buf, params, elapsed,
                   end_time, fail_start, start, now, wallOff, wdt>>

\* the wall clock is stepped forward or backward (settimeofday, NTP step)
ClockStep ==
    /\ proc = "running"
    /\ obs.clockSteps < MaxClockSteps
    /\ \E d \in {ClockJump, -ClockJump} : wallOff' = wallOff + d
    /\ obs' = [obs EXCEPT !.clockSteps = @ + 1]
    /\ UNCHANGED <<pc, site, proc, hstack, handler, sigs, fd, buf, params, elapsed,
                   end_time, fail_start, start, now, wdt>>

----------------------------------------------------------------------------
Next ==
    \/ Open \/ OpenFail \/ InstallHandler \/ RunEnter
    \/ GraceTick \/ GraceEnd
    \/ FeedWrite \/ FeedFlush \/ FeedFlushFail \/ Sleep
    \/ MonTestNone \/ MonTestPredicate \/ MonTestRaise \/ MonTestCall \/ MonClear
    \/ MonElse \/ MonElapsed \/ MonPrint \/ MonWithin
    \/ HcMemRaise \/ HcMem \/ HcWrite \/ HcWriteFail \/ HcLat \/ HcReturn
    \/ Signal \/ StopWrite \/ StopClose \/ StopCloseFail \/ StopExit
    \/ HostReset

\* the daemon with a wall clock that runs steadily
Spec == Init /\ [][Next]_vars

\* the daemon that receives no SIGTERM, with a wall clock that may be stepped
NextClock ==
    \/ Open \/ OpenFail \/ InstallHandler \/ RunEnter
    \/ GraceTick \/ GraceEnd
    \/ FeedWrite \/ FeedFlush \/ FeedFlushFail \/ Sleep
    \/ MonTestNone \/ MonTestPredicate \/ MonTestRaise \/ MonTestCall \/ MonClear
    \/ MonElse \/ MonElapsed \/ MonPrint \/ MonWithin
    \/ HcMemRaise \/ HcMem \/ HcWrite \/ HcWriteFail \/ HcLat \/ HcReturn
    \/ HostReset
    \/ ClockStep

SpecClock == Init /\ [][NextClock]_vars

\* the daemon that receives no SIGTERM, in an environment that may turn
\* unhealthy for good; the interpreter and the kernel keep running
NextSick ==
    \/ Open \/ OpenFail \/ InstallHandler \/ RunEnter
    \/ GraceTick \/ GraceEnd
    \/ FeedWrite \/ FeedFlush \/ FeedFlushFail \/ Sleep
    \/ MonTestNone \/ MonTestPredicate \/ MonTestRaise \/ MonTestCall \/ MonClear
    \/ MonElse \/ MonElapsed \/ MonPrint \/ MonWithin
    \/ HcMemRaise \/ HcMem \/ HcWrite \/ HcWriteFail \/ HcLat \/ HcReturn
    \/ HostReset
    \/ FallSick

SpecSick == Init /\ [][NextSick]_vars /\ WF_vars(NextSick)

----------------------------------------------------------------------------
(* Properties *)

Ended == proc \in {"exited", "raised"}

\* C1: in an unhealthy streak that began at real time T, a tick feeds exactly
\* when the real time elapsed since T is less than fail_timeout.
C1_FeedUntilTimeout ==
    obs.tick.kind = "unhealthy" =>
        (obs.tick.fed <=> obs.tick.t - obs.tick.T < fail_timeout)

\* C1 witness: the tick exactly fail_timeout after the streak began did not feed,
\* after earlier ticks of the streak fed.
C1_Witness ==
    /\ obs.tick.kind = "unhealthy" /\ ~obs.tick.fed
    /\ fail_timeout > 0
    /\ obs.tick.t - obs.tick.T = fail_timeout

\* C2: once a process that received a SIGTERM has ended, the magic byte was
\* written exactly once, the handle was closed exactly once and the exit
\* status is 0.
C2_SignalDisarmsAndExits ==
    (sigs = 1 /\ Ended) =>
        (obs.vWrites = 1 /\ obs.closes = 1 /\ proc = "exited")

\* C3: after disarm closed the handle, feed() is never called and _stop never
\* runs again.
C3_NoUseAfterDisarm == ~obs.feedOnClosed /\ ~obs.stopOnClosed

\* C4: an error raised by the health predicate never ends the process.
C4_PredicateErrorSurvived == ~(proc = "raised" /\ obs.cause = "health")

\* C5: in a streak that follows a healthy tick after an earlier streak, the
\* window start is the time of the streak's own first tick and a tick feeds
\* exactly when less than fail_timeout has elapsed since that tick.
C5_HealthyTickResetsWindow ==
    (obs.tick.kind = "unhealthy" /\ obs.streakNo >= 2) =>
        /\ fail_start = <<obs.tick.T + wallOff>>
        /\ obs.tick.fed <=> obs.tick.t - obs.tick.T < fail_timeout

\* C5 witness: a tick of the second streak feeds although the first streak and
\* the second together already span fail_timeout or more.
C5_Witness ==
    /\ obs.tick.kind = "unhealthy" /\ obs.tick.fed
    /\ obs.streakNo >= 2 /\ obs.prev # None
    /\ obs.tick.t > obs.tick.T
    /\ obs.prev[1] + (obs.tick.t - obs.tick.T) >= fail_timeout

\* C6: the health predicate is first called, and the Monitoring phase entered,
\* no earlier than startup_delay after run() was entered; before that the loop
\* is in Starting, where a tick with the delay not yet over feeds.
C6_GraceFeedsWithoutPredicate ==
    /\ obs.firstCall # None => obs.firstCall[1] - obs.runStart[1] >= startup_delay
    /\ Monitoring => now - obs.runStart[1] >= startup_delay
    /\ (pc = "grace_test" /\ now - obs.runStart[1] < startup_delay) => Wall < end_time
    /\ (Starting /\ pc = "sleep") => obs.everFed

\* C6 witness: after a grace period of positive length with a feed, the
\* predicate has been called.
C6_Witness ==
    /\ startup_delay > 0 /\ obs.firstCall # None /\ obs.everFed
    /\ obs.firstCall[1] - obs.runStart[1] >= startup_delay

\* C7: as long as no unhealthy streak has reached fail_timeout, every
\* Monitoring tick has called feed().
C7_FedEveryTick ==
    (obs.tick.kind # "none" /\ ~obs.expired) => obs.allFed

\* C7 witness: healthy and unhealthy ticks alternated, none reached the
\* timeout, and all of them fed.
C7_Witness ==
    /\ obs.tick.kind = "unhealthy" /\ obs.streakNo >= 2 /\ obs.tick.t > obs.tick.T
    /\ ~obs.expired /\ obs.allFed

\* C8: without a SIGTERM, once every health check fails from some time on, the
\* host is eventually reset, and after a tick of the streak has withheld its
\* feed the daemon writes nothing more to the device.
C8_SustainedFailureResets ==
    /\ obs.sick ~> proc = "reset"
    /\ [](obs.sick => ~obs.lateWrite)

\* C8 witness: the daemon was still running, feeds withheld and nothing written
\* since, when the countdown reset the host.
C8_Witness ==
    /\ obs.sick /\ proc = "reset" /\ obs.cause = ""
    /\ obs.dry /\ ~obs.lateWrite
    /\ now = wdt.last + KernelTimeout

\* C9: with the wall clock stepped, feeds follow the real elapsed time all the
\* same: an unhealthy tick feeds exactly when less than fail_timeout of real
\* time has passed since its streak began, and Monitoring begins no earlier and
\* the grace period ends no later than startup_delay of real time after the
\* entry of run().
C9_ClockStepInsensitive ==
    /\ obs.tick.kind = "unhealthy" =>
          (obs.tick.fed <=> obs.tick.t - obs.tick.T < fail_timeout)
    /\ Monitoring => now - obs.runStart[1] >= startup_delay
    /\ pc = "grace_test" => (Wall < end_time <=> now - obs.runStart[1] < startup_delay)

\* C10: a failed open leaves no instance and no feed; a failed feed ends run()
\* with the error at the statement that failed.
C10_DeviceFailureFatal ==
    /\ obs.cause = "open" => (proc = "raised" /\ fd = "none" /\ ~handler /\ ~obs.everFed)
    /\ obs.feedFailed => (proc \in {"raised", "reset"} /\ pc \in {"feed_write", "feed_flush"})

\* C10 witness: a feed of the Monitoring phase failed and the process ended.
C10_Witness ==
    obs.feedFailed /\ obs.cause = "feed" /\ site = "else" /\ proc = "raised"

\* C11: check_system_alive never lets an error out: the process never ends
\* with an exception raised by it.
C11_ReferencePredicateNeverRaises ==
    ~(health_check = "check_system_alive" /\ pc = "hc_mem"
        /\ proc = "raised" /\ obs.cause = "health")

\* C12: the loop has no exit of its own: a process that ended without an
\* exception of feed(), of the health predicate or of close() was ended by
\* sys.exit(0) in _stop, and as
\* long as the process runs after feeds were withheld it is at a statement of
\* the Monitoring loop.
C12_LoopNeverExits ==
    /\ (Ended /\ obs.cause = "") =>
          (proc = "exited" /\ sigs >= 1 /\ obs.closes >= 1 /\ fd = "closed")
    /\ (proc = "running" /\ obs.dry) => Monitoring

\* C12 witness: two or more ticks after the timeout expired the daemon is
\* still running, asleep between two ticks, with no feed since.
C12_Witness ==
    /\ proc = "running" /\ pc = "sleep" /\ sigs = 0 /\ fail_timeout > 0
    /\ obs.tick.kind = "unhealthy" /\ ~obs.tick.fed
    /\ obs.tick.t - obs.tick.T >= fail_timeout + 2 * interval

\* C13: after a healthy tick the window start is None; during an unhealthy
\* streak it is the time of the streak's first tick, at the first tick and at
\* every later one.
C13_WindowStartTracksStreak ==
    /\ (pc \in {"sleep", "mon_test"} /\ obs.tick.kind = "healthy") => fail_start = None
    /\ obs.tick.kind = "unhealthy" => fail_start = <<obs.tick.T + wallOff>>

\* C13 witness: a later tick of a streak has ended and the window start is
\* still the time of the streak's first tick.
C13_Witness ==
    /\ obs.tick.kind = "unhealthy" /\ obs.tick.t > obs.tick.T
    /\ pc = "sleep" /\ fail_start = <<obs.tick.T + wallOff>>

\* C14: an unhealthy tick prints exactly one countdown line, with the seconds
\* since the streak began and fail_timeout; a healthy tick prints none.
C14_CountdownLogged ==
    /\ obs.tick.kind = "unhealthy" =>
          obs.log = << <<obs.tick.t - obs.tick.T, fail_timeout>> >>
    /\ obs.tick.kind = "healthy" => obs.log = << >>

\* C14 witness: a tick after the timeout expired withheld its feed and printed
\* its line.
C14_Witness ==
    /\ obs.tick.kind = "unhealthy" /\ ~obs.tick.fed /\ fail_timeout > 0
    /\ obs.tick.t - obs.tick.T > fail_timeout
    /\ Len(obs.log) = 1

\* C15: after a streak in which feeds were withheld, a healthy tick (not
\* interrupted by a signal) feeds the device and leaves the window start None,
\* and a later streak feeds exactly while less than fail_timeout has passed
\* since its own first tick.
C15_WithholdingNotLatched ==
    obs.recovered =>
        /\ (obs.tick.kind = "healthy" /\ pc = "sleep" /\ sigs = 0) =>
              (fail_start = None /\ wdt.last = obs.tick.t /\ wdt.lastByte = "1")
        /\ obs.tick.kind = "unhealthy" =>
              (obs.tick.fed <=> obs.tick.t - obs.tick.T < fail_timeout)

\* C15 witness: after the recovery a new streak is fed at a tick later than
\* its first.
C15_Witness ==
    /\ obs.recovered /\ fail_timeout > 0
    /\ obs.tick.kind = "unhealthy" /\ obs.tick.fed /\ obs.tick.t > obs.tick.T

\* C16: once _stop has closed the handle, with the device accepting the write
\* that close() makes, the last byte the device received is the magic byte 'V'.
C16_MagicByteLast ==
    (obs.closes >= 1 /\ ~obs.closeFailed) =>
        (wdt.lastByte = "V" /\ wdt.expect /\ ~wdt.armed)

\* C16 witness: the SIGTERM came between the write and the flush of feed(),
\* and the process exited with 'V' the last byte delivered.
C16_Witness ==
    /\ pc = "feed_flush" /\ proc = "exited"
    /\ obs.closes = 1 /\ wdt.lastByte = "V"

\* C17: with a predicate supplied, every Monitoring tick called it exactly once
\* before its decision, and the tick fed exactly when the call returned True or
\* less than fail_timeout had passed since the window start.
C17_OneProbePerTick ==
    (health_check # "None" /\ obs.tick.kind # "none") =>
        /\ obs.tick.calls = 1
        /\ obs.tick.fed <=>
              \/ obs.tick.result
              \/ fail_start # None /\ Elapsed(obs.tick.t + wallOff, fail_start) < fail_timeout

\* C17 witness: a tick after the timeout expired still called the predicate
\* once, and withheld its feed.
C17_Witness ==
    /\ health_check # "None" /\ obs.tick.calls = 1 /\ fail_timeout > 0
    /\ obs.tick.kind = "unhealthy" /\ ~obs.tick.fed
    /\ obs.tick.t - obs.tick.T >= fail_timeout + interval

\* C18: without a SIGTERM the magic byte is never written, _stop never closes
\* the handle, and the countdown of the opened device stays armed: also after
\* feeds were withheld and after an error ended the process.
C18_DisarmOnlyOnSignal ==
    /\ (obs.vWrites >= 1 \/ obs.closes >= 1) => sigs >= 1
    /\ (sigs = 0 /\ fd # "none") => (wdt.armed /\ ~wdt.expect /\ wdt.lastByte # "V")

\* C18 witness: feeds were withheld, then an error ended the process, and the
\* countdown is still armed.
C18_Witness ==
    /\ sigs = 0 /\ obs.dry /\ proc = "raised" /\ obs.cause = "health"
    /\ wdt.armed /\ fd = "closed"

\* C19: with health_check None every Monitoring tick is healthy and feeds, the
\* window start stays None and no feed is ever withheld.
C19_NoPredicateAlwaysFeeds ==
    health_check = "None" =>
        /\ fail_start = None
        /\ obs.tick.kind \in {"none", "healthy"}
        /\ obs.allFed /\ ~obs.dry /\ ~obs.expired
        /\ obs.tick.kind = "healthy" => obs.tick.fed

\* C19 witness: without a predicate, a Monitoring tick later than the first
\* one has fed the device.
C19_Witness ==
    /\ health_check = "None" /\ obs.tick.kind = "healthy"
    /\ obs.tick.t >= obs.runStart[1] + startup_delay + interval
    /\ pc = "sleep" /\ wdt.last = obs.tick.t

====
